---- MODULE Spec2Model ----
(***************************************************************************)
(* NumpyNet (numpynet_model.py): a fully connected feed-forward network    *)
(* trained by mini-batch gradient descent.                                 *)
(*                                                                         *)
(* Numbers are modelled as integers (numpy floats form a ring as far as    *)
(* the operations used here go; rounding error is outside the model).      *)
(* A matrix is a non-empty sequence of rows, each a sequence of integers.  *)
(* The process-wide numpy generator is the variable rng: the seed it was   *)
(* last given and the requests it has served since.  What a generator      *)
(* returns is a function of that state; the function is unknown, so the    *)
(* first request in a state picks any outcome and oracle remembers it.     *)
(***************************************************************************)
EXTENDS Integers, Sequences, FiniteSets, TLC

(* ------------------------------ bounds -------------------------------- *)
MaxFeatures == 2
MaxBatch == 2
MaxHidden == 2
MaxWidth == 2
MaxSetSize == 4
MaxEpochs == 2
UnitDen == 4
MaxDrawn == 4
MaxPredicts == 3

(* Python's None is the empty sequence; an optional number or record x is  *)
(* <<x>>.  NoError is "no exception".                                      *)
None == <<>>
Some(x) == <<x>>
NoError == "none"
Nets == {1, 2}

(* ------------------------------ matrices ------------------------------ *)
Rows(m) == Len(m)
Cols(m) == Len(m[1])
Shape(m) == <<Rows(m), Cols(m)>>
(* the r x c matrix of the entries E(i, j), as explicit tuples *)
Matrix(r, c, E(_, _)) == [i \in 1..r |-> [j \in 1..c |-> E(i, j)] \o <<>>] \o <<>>
Zeros(r, c) == Matrix(r, c, LAMBDA i, j : 0)
Transpose(m) == Matrix(Cols(m), Rows(m), LAMBDA j, i : m[i][j])

RECURSIVE SumTo(_, _)
SumTo(f, n) == IF n = 0 THEN 0 ELSE f[n] + SumTo(f, n - 1)

Abs(x) == IF x < 0 THEN -x ELSE x

DotOk(a, b) == Cols(a) = Rows(b)
Dot(a, b) ==
    LET inner == Cols(a) IN
    Matrix(Rows(a), Cols(b),
           LAMBDA i, j : SumTo([k \in 1..inner |-> a[i][k] * b[k][j]], inner))
MatAdd(a, b) == Matrix(Rows(a), Cols(a), LAMBDA i, j : a[i][j] + b[i][j])
MatSub(a, b) == Matrix(Rows(a), Cols(a), LAMBDA i, j : a[i][j] - b[i][j])
MatMul(a, b) == Matrix(Rows(a), Cols(a), LAMBDA i, j : a[i][j] * b[i][j])
Scale(k, a) == Matrix(Rows(a), Cols(a), LAMBDA i, j : k * a[i][j])
SumAbs(a) ==
    SumTo([i \in 1..Rows(a) |->
             SumTo([j \in 1..Cols(a) |-> Abs(a[i][j])], Cols(a))], Rows(a))

(* The activation collaborator: a three-level squashing function whose    *)
(* derivative is written in terms of the activated value, y * (2 - y).    *)
ActivationScalar(x, deriv) ==
    IF deriv THEN x * (2 - x)
    ELSE IF x < 0 THEN 0 ELSE IF x = 0 THEN 1 ELSE 2
activation_function(m, deriv) ==
    Matrix(Rows(m), Cols(m), LAMBDA i, j : ActivationScalar(m[i][j], deriv))

(* --------------------------- the generator ---------------------------- *)
VARIABLES rng, oracle, net, args, tr, obs, call
vars == <<rng, oracle, net, args, tr, obs, call>>

Seeded(seed) == [seed |-> seed, served |-> <<>>]
Advance(g, req) == [g EXCEPT !.served = Append(@, req)]
Outcomes(orc, g, req, range) ==
    IF <<g, req>> \in DOMAIN orc THEN {orc[<<g, req>>]} ELSE range
Remember(orc, g, req, r) ==
    IF <<g, req>> \in DOMAIN orc THEN orc
    ELSE [k \in DOMAIN orc \cup {<<g, req>>} |->
            IF k = <<g, req>> THEN r ELSE orc[k]]

(* np.random.random([r, c]): variates in [0, 1), here multiples of        *)
(* 1/UnitDen, one family member per starting phase.                        *)
Phases == {0, 1}
RandomRange(r, c) ==
    {Matrix(r, c, LAMBDA i, j : (g + i * c + j) % UnitDen) : g \in Phases}
(* (init_weight_spread * 2) * u - init_weight_spread                       *)
SpreadWeights(u, spread) ==
    Matrix(Rows(u), Cols(u), LAMBDA i, j : ((spread * 2) * u[i][j]) \div UnitDen - spread)


(* One np.random.random([r, c]) call from generator g with memory orc:    *)
(* the set of <<matrix, generator after, memory after>> it can produce.   *)
DrawRandom(g, orc, r, c) ==
    LET req == <<"random", r, c>> IN
    {<<u, Advance(g, req), Remember(orc, g, req, u)>> :
        u \in Outcomes(orc, g, req, RandomRange(r, c))}

(* --------------------------- forward engine --------------------------- *)
(* forward, lines 75-77: layer[0] is stored first, then each product; a   *)
(* product of mismatched shapes raises and leaves what was stored so far. *)
RECURSIVE ForwardFrom(_, _, _, _)
ForwardFrom(layer, weight, num_layers, i) ==
    IF i > num_layers - 1 THEN [raised |-> NoError, layer |-> layer]
    ELSE IF ~DotOk(layer[i], weight[i]) THEN [raised |-> "ValueError", layer |-> layer]
    ELSE ForwardFrom([layer EXCEPT ![i + 1] =
                         activation_function(Dot(layer[i], weight[i]), FALSE)],
                     weight, num_layers, i + 1)
forward(layer, weight, num_layers, input_info) ==
    ForwardFrom([layer EXCEPT ![1] = input_info], weight, num_layers, 1)

(* predict, lines 81-84: the same chain on a local value.                 *)
RECURSIVE PredictFrom(_, _, _, _)
PredictFrom(p, weight, num_layers, i) ==
    IF i > num_layers - 1 THEN [raised |-> NoError, value |-> p]
    ELSE IF ~DotOk(p, weight[i]) THEN [raised |-> "ValueError", value |-> None]
    ELSE PredictFrom(activation_function(Dot(p, weight[i]), FALSE), weight, num_layers, i + 1)
predict(weight, num_layers, input_info) == PredictFrom(input_info, weight, num_layers, 1)

(* ---------------------------- construction ---------------------------- *)
NoNet ==
    [status |-> "none", learning_rate |-> 0, weight_decay |-> None, batch_size |-> 0,
     num_layers |-> 0, num_hidden |-> 0, hidden_sizes |-> <<>>, layer |-> <<>>,
     weight |-> <<>>, loss_history |-> <<>>, predict_space |-> None]

(* Python list indexing weight[k] for a 0-based k that may be -1.         *)
PyIndex(list, k) == IF k < 0 THEN Len(list) + k + 1 ELSE k + 1

(* line 50-53 *)
HiddenSizes(a) ==
    IF a.hidden_sizes = None THEN [i \in 1..a.num_hidden |-> a.batch_size]
    ELSE a.hidden_sizes[1]

(* lines 56-62: the generator after seeding, with the memory.             *)
SeedOutcomes(a, g, orc) ==
    IF a.random_seed # None THEN {<<Seeded(a.random_seed[1]), orc>>}
    ELSE LET req == <<"random", 1>> IN
         {<<Seeded(s), Remember(orc, g, req, s)>> :
             s \in Outcomes(orc, g, req, {1, 2})}

(* lines 66-67, iterations i .. num_hidden-2 of the loop, from each state *)
(* of S = [weight, rng, oracle, raised].                                   *)
RECURSIVE HiddenWeights(_, _, _)
HiddenWeights(a, i, S) ==
    IF i > a.num_hidden - 2 THEN S
    ELSE HiddenWeights(a, i + 1,
        UNION {IF s.raised # NoError THEN {s}
               ELSE IF Len(HiddenSizes(a)) < i + 2
                    THEN {[s EXCEPT !.raised = "IndexError"]}
               ELSE {[weight |-> [s.weight EXCEPT ![i + 2] =
                                     SpreadWeights(d[1], a.init_weight_spread)],
                      rng |-> d[2], oracle |-> d[3], raised |-> NoError] :
                        d \in DrawRandom(s.rng, s.oracle,
                                         Cols(s.weight[i + 1]), HiddenSizes(a)[i + 2])}
               : s \in S})

(* line 68 *)
OutputWeights(a, S) ==
    UNION {IF s.raised # NoError THEN {s}
           ELSE {[weight |-> [s.weight EXCEPT ![a.num_hidden + 1] =
                                 SpreadWeights(d[1], a.init_weight_spread)],
                  rng |-> d[2], oracle |-> d[3], raised |-> NoError] :
                    d \in DrawRandom(s.rng, s.oracle,
                                     Cols(s.weight[PyIndex(s.weight, a.num_hidden - 1)]), 1)}
           : s \in S}

(* line 65 *)
FirstWeights(a, S) ==
    UNION {IF Len(HiddenSizes(a)) = 0
           THEN {[weight |-> <<>>, rng |-> s[1], oracle |-> s[2], raised |-> "IndexError"]}
           ELSE {[weight |-> [[i \in 1..(a.num_hidden + 1) |-> <<>>] EXCEPT ![1] =
                                 SpreadWeights(d[1], a.init_weight_spread)],
                  rng |-> d[2], oracle |-> d[3], raised |-> NoError] :
                    d \in DrawRandom(s[1], s[2], a.num_features, HiddenSizes(a)[1])}
           : s \in S}

(* __init__, lines 33-71: every outcome of a construction with arguments  *)
(* a from generator g: the object (or the exception) and the generator.   *)
InitOutcomes(a, g, orc) ==
    {LET num_layers == 2 + a.num_hidden
         fw == forward([i \in 1..num_layers |-> <<>>], s.weight, num_layers,
                       Zeros(a.batch_size, a.num_features))
         failure == IF s.raised # NoError THEN s.raised ELSE fw.raised
     IN [rng |-> s.rng, oracle |-> s.oracle, raised |-> failure,
         net |-> IF failure # NoError THEN [NoNet EXCEPT !.status = "failed"]
                 ELSE [status |-> "ok", learning_rate |-> a.learning_rate,
                       weight_decay |-> a.weight_decay, batch_size |-> a.batch_size,
                       num_layers |-> num_layers, num_hidden |-> a.num_hidden,
                       hidden_sizes |-> HiddenSizes(a), layer |-> fw.layer,
                       weight |-> s.weight, loss_history |-> <<>>,
                       predict_space |-> None]]
     : s \in OutputWeights(a, HiddenWeights(a, 0, FirstWeights(a, SeedOutcomes(a, g, orc))))}

Idle == tr.pc = "idle"

Construct(n, a) ==
    /\ Idle
    /\ net[n].status = "none"
    /\ \E o \in InitOutcomes(a, rng, oracle) :
         /\ rng' = o.rng
         /\ oracle' = o.oracle
         /\ net' = [net EXCEPT ![n] = o.net]
         /\ call' = [op |-> "init", n |-> n, raised |-> o.raised,
                     input |-> None, value |-> None]
         /\ args' = [args EXCEPT ![n] = Some(a)]
         /\ obs' = [obs EXCEPT !.init_weight[n] = o.net.weight]
    /\ UNCHANGED <<tr>>


(* ----------------------- direct forward / predict --------------------- *)
Forward(n, x) ==
    /\ Idle
    /\ net[n].status = "ok"
    /\ LET fw == forward(net[n].layer, net[n].weight, net[n].num_layers, x) IN
         /\ net' = [net EXCEPT ![n].layer = fw.layer]
         /\ call' = [op |-> "forward", n |-> n, raised |-> fw.raised,
                     input |-> x, value |-> None]
         /\ obs' = [obs EXCEPT !.forward_raised[n] = fw.raised # NoError]
    /\ UNCHANGED <<rng, oracle, args, tr>>

(* a predict that runs forward and returns the stored output layer *)
PredictStoring(n, x) ==
    /\ Idle
    /\ net[n].status = "ok"
    /\ obs.npred[n] < MaxPredicts
    /\ LET fw == forward(net[n].layer, net[n].weight, net[n].num_layers, x)
           value == IF fw.raised = NoError THEN fw.layer[net[n].num_layers] ELSE None
       IN /\ net' = [net EXCEPT ![n].layer = fw.layer]
          /\ call' = [op |-> "predict", n |-> n, raised |-> fw.raised,
                      input |-> x, value |-> value]
          /\ obs' = [obs EXCEPT !.npred[n] = @ + 1,
                                !.first_pred[n] =
                                    IF @ = None /\ fw.raised = NoError
                                    THEN Some([input |-> x, value |-> value]) ELSE @]
    /\ UNCHANGED <<rng, oracle, args, tr>>

Predict(n, x) ==
    /\ Idle
    /\ net[n].status = "ok"
    /\ obs.npred[n] < MaxPredicts
    /\ LET p == predict(net[n].weight, net[n].num_layers, x) IN
         /\ call' = [op |-> "predict", n |-> n, raised |-> p.raised,
                     input |-> x, value |-> p.value]
         /\ obs' = [obs EXCEPT !.npred[n] = @ + 1,
                               !.first_pred[n] =
                                   IF @ = None /\ p.raised = NoError
                                   THEN Some([input |-> x, value |-> p.value]) ELSE @]
    /\ UNCHANGED <<rng, oracle, net, args, tr>>


(* ------------------------------ training ------------------------------ *)
Range(f) == {f[i] : i \in DOMAIN f}

(* the iteration count taken as floor + 1 *)
IterationsFloorPlusOne(set_size, batch_size) == set_size \div batch_size + 1

(* math.ceil(set_size / batch_size), line 90 *)
Iterations(set_size, batch_size) == (set_size + batch_size - 1) \div batch_size

(* round(epochs * (0.01 * visualize_percent)), line 93: Python rounds a   *)
(* half to the even neighbour.                                             *)
RoundHalfEven(num, den) ==
    LET q == num \div den
        r == num % den
    IN IF 2 * r < den THEN q
       ELSE IF 2 * r > den THEN q + 1
       ELSE IF q % 2 = 0 THEN q ELSE q + 1
RunFracRound(epochs, visualize_percent) == RoundHalfEven(epochs * visualize_percent, 100)

(* np.arange(set_size), line 106 *)
Arange(set_size) == [i \in 1..set_size |-> i - 1]

(* np.random.randint(set_size, size=k), line 112 *)
RandintRange(set_size, k) == [1..k -> 0..(set_size - 1)]

(* np.random.choice(pool, k, replace=False), line 115: k entries of pool  *)
(* at distinct positions, in any order.                                    *)
ChoiceRange(pool, k) ==
    {[i \in 1..k |-> pool[p[i]]] :
        p \in {q \in [1..k -> 1..Len(pool)] : \A i, j \in 1..k : i # j => q[i] # q[j]}}

(* a removal that drops only the first index drawn *)
RemoveDrawnFirstOnly(pool, batch) ==
    LET keep(v) == v # batch[1] IN SelectSeq(pool, keep)

(* available_indexes[~np.in1d(available_indexes, batch_indexes)], line 119 *)
RemoveDrawn(pool, batch) ==
    LET keep(v) == v \notin Range(batch) IN SelectSeq(pool, keep)

(* train_in[batch_indexes, :], lines 116-117 *)
TakeRows(m, idx) == [i \in 1..Len(idx) |-> m[idx[i] + 1]] \o <<>>

(* the training sets the callers pass: d selects the table                 *)
TrainIn(d, set_size, c) == Matrix(set_size, c, LAMBDA i, j : (i * d + j) % 2)
TrainOut(d, set_size) == Matrix(set_size, 1, LAMBDA i, j : (i + d) % 3)

ColMin(m, j) == CHOOSE v \in {m[i][j] : i \in 1..Rows(m)} : \A i \in 1..Rows(m) : v <= m[i][j]
ColMax(m, j) == CHOOSE v \in {m[i][j] : i \in 1..Rows(m)} : \A i \in 1..Rows(m) : v >= m[i][j]

IdleFrame ==
    [pc |-> "idle", n |-> 0, train_in |-> <<>>, train_out |-> <<>>, epochs |-> 0,
     set_size |-> 0, iterations |-> 0, runfracround |-> 0, e |-> 0, t |-> 0,
     available_indexes |-> <<>>, batch_indexes |-> <<>>, batch_in |-> <<>>,
     batch_out |-> <<>>, batch_loss |-> <<>>, error |-> <<>>, delta |-> <<>>,
     layer_index |-> 0, next |-> 0]

NoRun == [visualize_percent |-> 0, before |-> 0, batches |-> <<>>]

(* The call on net n returns or raises exc: the frame is gone and the     *)
(* call is recorded.                                                       *)
EndCall(n, exc, o, nt) ==
    /\ tr' = IdleFrame
    /\ call' = [op |-> "train", n |-> n, raised |-> exc, input |-> None, value |-> None]
    /\ obs' = [o EXCEPT !.calls[n] = Append(@,
                  [train_in |-> tr.train_in, train_out |-> tr.train_out,
                   epochs |-> tr.epochs, visualize_percent |-> o.run.visualize_percent,
                   raised |-> exc, batches |-> o.run.batches,
                   grown |-> Len(nt[n].loss_history) - o.run.before]),
                !.run = NoRun]

(* lines 88-101 *)
TrainBegin(n, train_in, train_out, epochs, visualize_percent) ==
    /\ Idle
    /\ net[n].status = "ok"
    /\ Len(obs.calls[n]) < 1
    /\ LET set_size == Rows(train_in)
           start == [obs EXCEPT !.first_pred[n] = None, !.npred[n] = 0,
                                !.batches = <<>>, !.pools = <<>>, !.replenished = <<>>,
                                !.run = [visualize_percent |-> visualize_percent,
                                         before |-> Len(net[n].loss_history),
                                         batches |-> <<>>]]
           frame == [IdleFrame EXCEPT
                        !.n = n, !.train_in = train_in, !.train_out = train_out,
                        !.epochs = epochs, !.set_size = set_size,
                        !.iterations = Iterations(set_size, net[n].batch_size),
                        !.runfracround = RunFracRound(epochs, visualize_percent),
                        !.error = [i \in 1..Len(net[n].layer) |-> None],
                        !.delta = [i \in 1..Len(net[n].layer) |-> None]]
       IN IF net[n].predict_space = None /\ Cols(train_in) < 2
          THEN /\ tr' = IdleFrame
               /\ call' = [op |-> "train", n |-> n, raised |-> "IndexError",
                           input |-> None, value |-> None]
               /\ obs' = [start EXCEPT !.calls[n] = Append(@,
                             [train_in |-> train_in, train_out |-> train_out,
                              epochs |-> epochs, visualize_percent |-> visualize_percent,
                              raised |-> "IndexError", batches |-> <<>>, grown |-> 0]),
                           !.run = NoRun]
               /\ UNCHANGED net
          ELSE /\ tr' = [frame EXCEPT !.pc = "epoch"]
               /\ call' = [op |-> "train", n |-> n, raised |-> NoError,
                           input |-> None, value |-> None]
               /\ obs' = start
               /\ net' = IF net[n].predict_space = None
                         THEN [net EXCEPT ![n].predict_space =
                                  <<ColMin(train_in, 1), ColMax(train_in, 1),
                                    ColMin(train_in, 2), ColMax(train_in, 2)>>]
                         ELSE net
    /\ UNCHANGED <<rng, oracle, args>>

(* line 104 with 106-108: the loop head; a finished loop leaves for 164.  *)
EpochBegin ==
    /\ tr.pc = "epoch"
    /\ IF tr.e < tr.epochs
       THEN /\ tr' = [tr EXCEPT !.available_indexes = Arange(tr.set_size),
                                !.batch_loss = <<>>, !.t = 0,
                                !.pc = IF 0 < tr.iterations THEN "draw" ELSE "epoch_end"]
            /\ obs' = [obs EXCEPT !.batches = <<>>, !.pools = <<>>, !.replenished = <<>>,
                                  !.epoch_log[tr.n] = Append(@, [batches |-> 0, decays |-> 0,
                                                                 decay_at |-> 0])]
       ELSE /\ tr' = [tr EXCEPT !.pc = "final"]
            /\ obs' = obs
    /\ UNCHANGED <<rng, oracle, net, args, call>>

(* lines 111-119 *)
BatchDraw ==
    /\ tr.pc = "draw"
    /\ LET b == net[tr.n].batch_size
           pool == tr.available_indexes
           short == Len(pool) < b
           req1 == <<"randint", tr.set_size, b - Len(pool)>>
       IN \E add_randoms \in IF short
                             THEN Outcomes(oracle, rng, req1,
                                           RandintRange(tr.set_size, b - Len(pool)))
                             ELSE {<<>>} :
          LET g1 == IF short THEN Advance(rng, req1) ELSE rng
              o1 == IF short THEN Remember(oracle, rng, req1, add_randoms) ELSE oracle
              full == pool \o add_randoms
              req2 == <<"choice", full, b>>
          IN \E batch_indexes \in Outcomes(o1, g1, req2, ChoiceRange(full, b)) :
                /\ rng' = Advance(g1, req2)
                /\ oracle' = Remember(o1, g1, req2, batch_indexes)
                /\ tr' = [tr EXCEPT !.batch_indexes = batch_indexes,
                                    !.batch_in = TakeRows(tr.train_in, batch_indexes),
                                    !.batch_out = TakeRows(tr.train_out, batch_indexes),
                                    !.available_indexes = RemoveDrawn(full, batch_indexes),
                                    !.pc = "forward"]
                /\ obs' = [obs EXCEPT !.batches = Append(@, batch_indexes),
                                      !.pools = Append(@, pool),
                                      !.replenished = Append(@, short),
                                      !.run.batches = Append(@, batch_indexes)]
    /\ UNCHANGED <<net, args, call>>

(* line 122 *)
BatchForward ==
    /\ tr.pc = "forward"
    /\ LET n == tr.n
           fw == forward(net[n].layer, net[n].weight, net[n].num_layers, tr.batch_in)
           nt == [net EXCEPT ![n].layer = fw.layer]
       IN /\ net' = nt
          /\ IF fw.raised # NoError
             THEN EndCall(n, fw.raised, [obs EXCEPT !.forward_raised[n] = TRUE], nt)
             ELSE /\ tr' = [tr EXCEPT !.pc = "out_delta"]
                  /\ obs' = [obs EXCEPT !.forward_raised[n] = FALSE,
                                        !.w_forward = net[n].weight,
                                        !.updates = [k \in 1..(net[n].num_layers - 1) |-> 0]]
                  /\ UNCHANGED call
    /\ UNCHANGED <<rng, oracle, args>>

(* an output delta that applies its weight update at once *)
OutputDeltaEager ==
    /\ tr.pc = "out_delta"
    /\ LET n == tr.n
           layer_index == net[n].num_layers - 1
           err == MatSub(tr.batch_out, net[n].layer[layer_index + 1])
           dlt == MatMul(Scale(net[n].learning_rate, err),
                         activation_function(net[n].layer[layer_index + 1], TRUE))
           more == Len(net[n].layer) - 2 > 0
       IN /\ tr' = [tr EXCEPT !.layer_index = layer_index,
                              !.error[layer_index + 1] = err,
                              !.delta[layer_index + 1] = dlt,
                              !.next = IF more THEN Len(net[n].layer) - 2
                                       ELSE Len(net[n].layer) - 1,
                              !.pc = IF more THEN "hid_delta" ELSE "update"]
          /\ net' = [net EXCEPT ![n].weight[layer_index] =
                         MatAdd(@, Dot(Transpose(net[n].layer[layer_index]), dlt))]
          /\ obs' = [obs EXCEPT !.updates[layer_index] = @ + 1]
    /\ UNCHANGED <<rng, oracle, args, call>>

(* lines 126-130; layer_index is the source's 0-based index and next the  *)
(* value the coming loop (133, then 139) hands out next.                   *)
OutputDelta ==
    /\ tr.pc = "out_delta"
    /\ LET n == tr.n
           layer_index == net[n].num_layers - 1
           err == MatSub(tr.batch_out, net[n].layer[layer_index + 1])
           dlt == MatMul(Scale(net[n].learning_rate, err),
                         activation_function(net[n].layer[layer_index + 1], TRUE))
           more == Len(net[n].layer) - 2 > 0
       IN tr' = [tr EXCEPT !.layer_index = layer_index,
                           !.error[layer_index + 1] = err,
                           !.delta[layer_index + 1] = dlt,
                           !.next = IF more THEN Len(net[n].layer) - 2
                                    ELSE Len(net[n].layer) - 1,
                           !.pc = IF more THEN "hid_delta" ELSE "update"]
    /\ UNCHANGED <<rng, oracle, net, args, obs, call>>


(* lines 133-136, one iteration *)
HiddenDelta ==
    /\ tr.pc = "hid_delta"
    /\ LET n == tr.n
           layer_index == tr.next
           err == Dot(tr.delta[layer_index + 2], Transpose(net[n].weight[layer_index + 1]))
           dlt == MatMul(err, activation_function(net[n].layer[layer_index + 1], TRUE))
           more == layer_index - 1 > 0
       IN tr' = [tr EXCEPT !.layer_index = layer_index,
                           !.error[layer_index + 1] = err,
                           !.delta[layer_index + 1] = dlt,
                           !.next = IF more THEN layer_index - 1
                                    ELSE Len(net[n].layer) - 1,
                           !.pc = IF more THEN "hid_delta" ELSE "update"]
    /\ UNCHANGED <<rng, oracle, net, args, obs, call>>

(* lines 139-140, one iteration *)
WeightUpdate ==
    /\ tr.pc = "update"
    /\ LET n == tr.n
           layer_index == tr.next
           grad == Dot(Transpose(net[n].layer[layer_index]), tr.delta[layer_index + 1])
       IN /\ net' = [net EXCEPT ![n].weight[layer_index] = MatAdd(@, grad)]
          /\ tr' = [tr EXCEPT !.layer_index = layer_index,
                              !.next = layer_index - 1,
                              !.pc = IF layer_index - 1 > 0 THEN "update" ELSE "loss"]
          /\ obs' = [obs EXCEPT !.updates[layer_index] = @ + 1]
    /\ UNCHANGED <<rng, oracle, args, call>>

(* line 142 and the step of the loop of line 109 *)
BatchLoss ==
    /\ tr.pc = "loss"
    /\ tr' = [tr EXCEPT !.batch_loss = Append(@, SumAbs(tr.error[Len(tr.error)])),
                        !.t = @ + 1,
                        !.pc = IF tr.t + 1 < tr.iterations THEN "draw" ELSE "epoch_end"]
    /\ obs' = [obs EXCEPT !.epoch_log[tr.n][Len(obs.epoch_log[tr.n])].batches = @ + 1]
    /\ UNCHANGED <<rng, oracle, net, args, call>>

(* line 144: the loss is kept as <<numerator, denominator>>               *)
EpochEnd ==
    /\ tr.pc = "epoch_end"
    /\ net' = [net EXCEPT ![tr.n].loss_history =
                  Append(@, <<SumTo(tr.batch_loss, Len(tr.batch_loss)),
                              tr.iterations * Rows(tr.train_in)>>)]
    /\ tr' = [tr EXCEPT !.pc = "report"]
    /\ UNCHANGED <<rng, oracle, args, obs, call>>

(* lines 147-154: e % runfracround divides by zero when the interval      *)
(* rounded to 0; the plots and the log change nothing.                     *)
Report ==
    /\ tr.pc = "report"
    /\ IF tr.runfracround = 0
       THEN EndCall(tr.n, "ZeroDivisionError", obs, net)
       ELSE /\ tr' = [tr EXCEPT !.pc = "decay"]
            /\ UNCHANGED <<obs, call>>
    /\ UNCHANGED <<rng, oracle, net, args>>

(* lines 156-158, and the step of the loop of line 104 *)
DecayWeights(weight, learning_rate, weight_decay) ==
    [k \in 1..Len(weight) |->
        MatSub(weight[k], Scale(weight_decay[1], Scale(learning_rate, weight[k])))] \o <<>>

Decay ==
    /\ tr.pc = "decay"
    /\ LET n == tr.n IN
       IF net[n].weight_decay # None
       THEN /\ net' = [net EXCEPT ![n].weight =
                          DecayWeights(@, net[n].learning_rate, net[n].weight_decay)]
            /\ obs' = [obs EXCEPT !.epoch_log[n][Len(obs.epoch_log[n])] =
                          [@ EXCEPT !.decays = @ + 1, !.decay_at = tr.t],
                                  !.w_before_decay = net[n].weight]
       ELSE UNCHANGED <<net, obs>>
    /\ tr' = [tr EXCEPT !.e = @ + 1, !.pc = "epoch"]
    /\ UNCHANGED <<rng, oracle, args, call>>

(* lines 164-167 *)
TrainFinal ==
    /\ tr.pc = "final"
    /\ EndCall(tr.n, NoError, obs, net)
    /\ UNCHANGED <<rng, oracle, net, args>>

(* ------------------------------- inputs ------------------------------- *)
SeqsUpTo(S, n) == UNION {[1..k -> S] : k \in 0..n}
Descending(k) == [i \in 1..k |-> k + 1 - i]

(* Constructor arguments that vary the topology. *)
TopologyArgs ==
    [num_features : 1..MaxFeatures, batch_size : {MaxBatch}, num_hidden : 0..MaxHidden,
     hidden_sizes : {None} \cup {Some(h) : h \in SeqsUpTo(1..MaxWidth, MaxHidden)},
     learning_rate : {2}, weight_decay : {None}, init_weight_spread : {2},
     random_seed : {None, Some(1)}]

(* Topologies of the networks that are called directly. *)
CallArgs ==
    [num_features : 1..MaxFeatures, batch_size : {MaxBatch}, num_hidden : 0..MaxHidden,
     hidden_sizes : {None} \cup {Some(Descending(k)) : k \in 1..MaxWidth},
     learning_rate : {2}, weight_decay : {None}, init_weight_spread : {2},
     random_seed : {Some(1)}]

(* Constructor arguments of the networks that are trained at length. *)
TrainingArgs ==
    [num_features : {2}, batch_size : 1..MaxBatch, num_hidden : {1, 2},
     hidden_sizes : {None}, learning_rate : {2}, weight_decay : {None, Some(1)},
     init_weight_spread : {2}, random_seed : {Some(1)}]

InputMat(k, r, c) == Matrix(r, c, LAMBDA i, j : (i + j + k) % 2)
(* one-row inputs of every width, right or wrong for the network *)
ForwardInputs == {InputMat(0, 1, c) : c \in 1..MaxFeatures}
(* inputs of 1, 2 and 3 rows, not batch_size rows *)
PredictInputs == {InputMat(k, k + 1, 2) : k \in {0, 1, 2}}

(* Training calls: set size, width, epochs, reporting percentage; a call  *)
(* draws at most MaxDrawn indices.                                         *)
TrainCalls(bs) ==
    {c \in [d : {1}, set_size : 1..MaxSetSize, cols : {2}, epochs : 1..MaxEpochs,
            visualize_percent : {5, 100}] :
        Iterations(c.set_size, bs) * bs * c.epochs <= MaxDrawn}

(* One short training call. *)
ShortCalls == [d : {1}, set_size : {MaxBatch}, cols : {2}, epochs : {1},
               visualize_percent : {100}]

Train(n, calls) ==
    \E c \in calls :
        TrainBegin(n, TrainIn(c.d, c.set_size, c.cols), TrainOut(c.d, c.set_size),
                   c.epochs, c.visualize_percent)

Init ==
    /\ rng = Seeded(0)
    /\ oracle = <<>>
    /\ net = [n \in Nets |-> NoNet]
    /\ args = [n \in Nets |-> None]
    /\ tr = IdleFrame
    /\ call = [op |-> "none", n |-> 0, raised |-> NoError, input |-> None, value |-> None]
    /\ obs = [init_weight |-> [n \in Nets |-> <<>>], first_pred |-> [n \in Nets |-> None],
              npred |-> [n \in Nets |-> 0], forward_raised |-> [n \in Nets |-> FALSE],
              batches |-> <<>>, pools |-> <<>>, replenished |-> <<>>, w_forward |-> <<>>,
              updates |-> <<>>, w_before_decay |-> <<>>,
              epoch_log |-> [n \in Nets |-> <<>>], calls |-> [n \in Nets |-> <<>>],
              run |-> NoRun]

TrainSteps ==
    \/ EpochBegin
    \/ BatchDraw
    \/ BatchForward
    \/ OutputDelta
    \/ HiddenDelta
    \/ WeightUpdate
    \/ BatchLoss
    \/ EpochEnd
    \/ Report
    \/ Decay
    \/ TrainFinal

(* One network, trained at length. *)
Next ==
    \/ \E a \in TrainingArgs : Construct(1, a)
    \/ net[1].status = "ok" /\ Train(1, TrainCalls(net[1].batch_size))
    \/ TrainSteps

Spec == Init /\ [][Next]_vars

(* Constructions over every topology. *)
NextInit ==
    \/ \E a \in TopologyArgs : Construct(1, a)
    \/ \E x \in ForwardInputs : Forward(1, x)

SpecInit == Init /\ [][NextInit]_vars

(* One network, forwarded directly and trained briefly. *)
NextCalls ==
    \/ \E a \in CallArgs : Construct(1, a)
    \/ \E x \in ForwardInputs : Forward(1, x)
    \/ Train(1, ShortCalls)
    \/ TrainSteps

SpecCalls == Init /\ [][NextCalls]_vars

(* One network, asked for predictions before and after a brief training. *)
NextPredict ==
    \/ \E a \in TrainingArgs : Construct(1, a)
    \/ \E x \in PredictInputs : Predict(1, x)
    \/ Forward(1, InputMat(1, 1, 2))
    \/ Train(1, ShortCalls)
    \/ TrainSteps

SpecPredict == Init /\ [][NextPredict]_vars

(* Two networks built from the same arguments in one process. *)
DetArgs ==
    [num_features : {2}, batch_size : {1}, num_hidden : {1}, hidden_sizes : {None},
     learning_rate : {2}, weight_decay : {None}, init_weight_spread : {2},
     random_seed : {Some(1), Some(2)}]
DetCalls == [d : {1}, set_size : {3}, cols : {2}, epochs : {1}, visualize_percent : {100}]

NextDet ==
    \/ \E n \in Nets : \E a \in DetArgs : Construct(n, a)
    \/ \E n \in Nets : Train(n, DetCalls)
    \/ TrainSteps

SpecDet == Init /\ [][NextDet]_vars


(* ======================================================================= *)
(*                               properties                                *)
(* ======================================================================= *)
RECURSIVE Flatten(_)
Flatten(ss) == IF ss = <<>> THEN <<>> ELSE Head(ss) \o Flatten(Tail(ss))

(* the least k with k * b >= s *)
CeilDiv(s, b) == CHOOSE k \in 0..s : k * b >= s /\ (k = 0 \/ (k - 1) * b < s)

Training == tr.pc # "idle"
BatchSize == net[tr.n].batch_size
Multiple == tr.set_size % BatchSize = 0

(* C1: when set_size is a multiple of batch_size, the ceil(set_size /     *)
(* batch_size) batches drawn in an epoch hold every index of [0, set_size) *)
(* exactly once.                                                           *)
C1_EpochCoversEveryIndexOnce ==
    (tr.pc = "epoch_end" /\ Multiple) =>
        LET all == Flatten(obs.batches) IN
        /\ Len(obs.batches) = CeilDiv(tr.set_size, BatchSize)
        /\ \A i \in 1..Len(obs.batches) : Len(obs.batches[i]) = BatchSize
        /\ \A v \in 0..(tr.set_size - 1) :
              Cardinality({p \in 1..Len(all) : all[p] = v}) = 1
        /\ \A p \in 1..Len(all) : all[p] \in 0..(tr.set_size - 1)

(* an epoch of at least two batches of two is complete, never replenished  *)
C1_Witness ==
    /\ tr.pc = "epoch_end"
    /\ Multiple
    /\ Len(obs.batches) >= 2
    /\ BatchSize >= 2

(* C2: train(..., epochs=N) runs all N epochs without raising, whatever   *)
(* visualize_percent is, and loss_history grows by exactly N.              *)
C2_TrainRunsEveryEpoch ==
    \A n \in Nets : \A k \in 1..Len(obs.calls[n]) :
        /\ obs.calls[n][k].raised = NoError
        /\ obs.calls[n][k].grown = obs.calls[n][k].epochs

(* C3: with hidden_sizes left at its default, construction succeeds for   *)
(* every num_hidden >= 0 and yields num_hidden + 2 layers and num_hidden  *)
(* + 1 chained weight matrices, from num_features rows to 1 column.        *)
C3_DefaultConstructionSucceeds ==
    \A n \in Nets :
        (args[n] # None /\ args[n][1].hidden_sizes = None) =>
            LET a == args[n][1]
                w == net[n].weight
            IN /\ net[n].status = "ok"
               /\ net[n].num_layers = a.num_hidden + 2
               /\ Len(net[n].layer) = a.num_hidden + 2
               /\ Len(w) = a.num_hidden + 1
               /\ Rows(w[1]) = a.num_features
               /\ \A i \in 1..(Len(w) - 1) : Rows(w[i + 1]) = Cols(w[i])
               /\ Cols(w[Len(w)]) = 1

(* C4: construction fails whenever the supplied hidden_sizes has a length *)
(* other than num_hidden.                                                  *)
C4_MismatchedSizesFail ==
    \A n \in Nets :
        (/\ args[n] # None
         /\ args[n][1].hidden_sizes # None
         /\ Len(args[n][1].hidden_sizes[1]) # args[n][1].num_hidden)
        => net[n].status = "failed"

ShapesOf(weight) == [k \in 1..Len(weight) |-> Shape(weight[k])]

(* C5: after a successful construction and any forward calls and weight   *)
(* updates, len(layer) = len(weight) + 1 = num_layers, every              *)
(* weight[i] has as many rows as layer[i] has columns and as many columns *)
(* as layer[i+1], and no weight matrix changes shape.                      *)
C5_ShapesAlwaysChain ==
    \A n \in Nets :
        net[n].status = "ok" =>
            /\ Len(net[n].layer) = net[n].num_layers
            /\ Len(net[n].weight) + 1 = net[n].num_layers
            /\ ShapesOf(net[n].weight) = ShapesOf(obs.init_weight[n])
            /\ \A i \in 1..(net[n].num_layers - 1) :
                  /\ Rows(net[n].weight[i]) = Cols(net[n].layer[i])
                  /\ Cols(net[n].weight[i]) = Cols(net[n].layer[i + 1])

(* C6: a predict call changes neither weight nor the stored layers, and   *)
(* returns what the first predict call on that input returned since the   *)
(* last train call.                                                        *)
C6_PredictIsPure ==
    [][call'.op = "predict" =>
          /\ net' = net
          /\ LET first == obs.first_pred[call'.n] IN
                (first # None /\ first[1].input = call'.input /\ call'.raised = NoError)
                    => call'.value = first[1].value]_vars

(* after a training and a forward call, a third predict call repeats the  *)
(* input of the first                                                      *)
C6_Witness ==
    /\ call.op = "predict"
    /\ call.raised = NoError
    /\ obs.npred[1] = 3
    /\ obs.first_pred[1] # None
    /\ obs.first_pred[1][1].input = call.input
    /\ Rows(call.input) # net[1].batch_size
    /\ Len(obs.calls[1]) = 1
    /\ Cols(net[1].layer[1]) = 2 /\ Rows(net[1].layer[1]) = 1

(* C7: two networks built with the same arguments and an explicit seed    *)
(* have the same initial weights and, trained on the same data for the    *)
(* same epochs, draw the same batches and end with the same weights and   *)
(* loss_history, in whatever order the four calls are made.                *)
C7_SameSeedSameTrajectory ==
    \A a, b \in Nets :
        (/\ a # b
         /\ net[a].status = "ok" /\ net[b].status = "ok"
         /\ args[a] = args[b]
         /\ args[a][1].random_seed # None)
        => /\ obs.init_weight[a] = obs.init_weight[b]
           /\ (/\ Len(obs.calls[a]) = 1 /\ Len(obs.calls[b]) = 1
               /\ obs.calls[a][1].train_in = obs.calls[b][1].train_in
               /\ obs.calls[a][1].train_out = obs.calls[b][1].train_out
               /\ obs.calls[a][1].epochs = obs.calls[b][1].epochs)
              => /\ obs.calls[a][1].batches = obs.calls[b][1].batches
                 /\ net[a].weight = net[b].weight
                 /\ net[a].loss_history = net[b].loss_history

(* C8: with weight_decay configured every epoch decays exactly once,      *)
(* after all of its batches, to weight * (1 - learning_rate *              *)
(* weight_decay); without it no epoch decays.                              *)
C8_DecayOncePerEpoch ==
    \A n \in Nets : \A k \in 1..Len(obs.epoch_log[n]) :
        LET ep == obs.epoch_log[n][k]
            over == ~Training \/ k < Len(obs.epoch_log[n]) \/ tr.pc \in {"epoch", "final"}
        IN /\ net[n].weight_decay = None => ep.decays = 0
           /\ net[n].weight_decay # None =>
                 /\ ep.decays <= 1
                 /\ ep.decays = 1 => ep.decay_at = ep.batches
                 /\ over => ep.decays = 1
                 /\ (Training /\ tr.pc = "epoch" /\ k = Len(obs.epoch_log[n])) =>
                       \A i \in 1..Len(net[n].weight) :
                           net[n].weight[i] =
                               Scale(1 - net[n].learning_rate * net[n].weight_decay[1],
                                     obs.w_before_decay[i])

(* C9: in a batch no weight changes until every delta is computed, every  *)
(* delta is computed from the weights of the forward pass, and then each  *)
(* weight[k-1], k from num_layers-1 down to 1, is updated exactly once.    *)
C9_DeltasBeforeUpdates ==
    Training =>
        LET n == tr.n
            L == net[n].num_layers - 1
        IN /\ tr.pc \in {"out_delta", "hid_delta"} =>
                 /\ net[n].weight = obs.w_forward
                 /\ \A k \in 1..L : obs.updates[k] = 0
           /\ tr.pc = "update" =>
                 \A k \in 1..L :
                     IF k > tr.next THEN obs.updates[k] = 1
                     ELSE obs.updates[k] = 0 /\ net[n].weight[k] = obs.w_forward[k]
           /\ tr.pc = "loss" => \A k \in 1..L : obs.updates[k] = 1
           /\ tr.pc \in {"update", "loss"} =>
                 \A li \in 1..(L - 1) :
                     tr.delta[li + 1] =
                         MatMul(Dot(tr.delta[li + 2], Transpose(obs.w_forward[li + 1])),
                                activation_function(net[n].layer[li + 1], TRUE))

(* every weight of a batch has been updated and the hidden weights moved  *)
C9_Witness ==
    /\ tr.pc = "loss"
    /\ net[tr.n].num_layers >= 3
    /\ \A k \in 1..(net[tr.n].num_layers - 1) : net[tr.n].weight[k] # obs.w_forward[k]

(* C10: the pool is replenished only in the last iteration of an epoch,   *)
(* and there exactly when set_size is no multiple of batch_size; every     *)
(* earlier draw finds at least batch_size distinct indices, and nothing is *)
(* drawn in the epoch after a replenished draw.                            *)
C10_ReplenishOnlyLast ==
    Training =>
        LET its == CeilDiv(tr.set_size, BatchSize)
            drawn == Len(obs.replenished)
        IN /\ drawn <= its
           /\ Cardinality({i \in 1..drawn : obs.replenished[i]}) <= 1
           /\ \A i \in 1..drawn :
                 /\ obs.replenished[i] <=> (i = its /\ ~Multiple)
                 /\ obs.replenished[i] => i = drawn
                 /\ i < its =>
                       /\ Len(obs.pools[i]) >= BatchSize
                       /\ Cardinality(Range(obs.pools[i])) = Len(obs.pools[i])

(* the second batch of an epoch was drawn from a replenished pool         *)
C10_Witness ==
    /\ tr.pc = "epoch_end"
    /\ Len(obs.replenished) >= 2
    /\ obs.replenished[Len(obs.replenished)]
    /\ tr.available_indexes = <<>>

====
